---- MODULE Spec2Model ----
(***************************************************************************)
(* Model of the DeepL multi-format translator: the placeholder codec       *)
(* (utils.js), the retrying translation client (translator.js) and the     *)
(* incremental translate-and-rewrite loop of the eight format handlers.    *)
(*                                                                         *)
(* A text is a sequence of one-character strings.  A document is the       *)
(* sequence of its leaf values in document order: the values of a root     *)
(* mapping (YAML, JSON, INI, XML, TOML), the lines of a TXT file, the      *)
(* values of the property lines of a .properties file, the contents of     *)
(* the quoted strings of an SNBT file.                                     *)
(***************************************************************************)
EXTENDS Integers, Sequences, FiniteSets, TLC

(* ---------------------------------------------------------------- bounds *)
\* Largest number of leaves (lines, quoted strings) of an input document.
MaxUnits == 3

\* The most pieces a one-line text of the codec jobs is put together from.
MaxPieces == 2
MaxChildren == 2

(* ------------------------------------------------------- program constants *)
MAX_RETRIES == 3
INITIAL_RETRY_DELAY == 1000
MAX_RETRY_DELAY == 10000

(* ------------------------------------------------------------------ texts *)
Min(a, b) == IF a <= b THEN a ELSE b

RECURSIVE Pow2(_)
Pow2(n) == IF n <= 0 THEN 1 ELSE 2 * Pow2(n - 1)

\* s.slice(from - 1, to) of JavaScript, 1-based and inclusive here.
Slice(s, from, to) == IF from > to THEN <<>> ELSE SubSeq(s, from, to)

\* Whitespace as String.prototype.trim sees it (the characters used here).
IsSpace(c) == c \in {" ", "\t", "\n", "\r"}

RECURSIVE TrimLeft(_)
TrimLeft(s) ==
  IF s = <<>> THEN <<>>
  ELSE IF IsSpace(Head(s)) THEN TrimLeft(Tail(s)) ELSE s

RECURSIVE TrimRight(_)
TrimRight(s) ==
  IF s = <<>> THEN <<>>
  ELSE IF IsSpace(s[Len(s)]) THEN TrimRight(Slice(s, 1, Len(s) - 1)) ELSE s

\* String.prototype.trim
Trim(s) == TrimRight(TrimLeft(s))

\* s.startsWith(sub, p - 1)
StartsAt(s, sub, p) ==
  /\ p >= 1
  /\ p + Len(sub) - 1 <= Len(s)
  /\ \A k \in 1..Len(sub) : s[p + k - 1] = sub[k]

RECURSIVE IndexFrom(_, _, _)
IndexFrom(s, sub, p) ==
  IF p + Len(sub) - 1 > Len(s) THEN 0
  ELSE IF StartsAt(s, sub, p) THEN p
  ELSE IndexFrom(s, sub, p + 1)

\* s.indexOf(sub) + 1: the 1-based position of the first occurrence, 0 if none.
IndexOf(s, sub) == IndexFrom(s, sub, 1)

\* The replacement text of String.prototype.replace: a doubled dollar sign is one
\* dollar sign, dollar-ampersand the matched text and dollar-quote the text after
\* the match.  (Dollar-backtick, the text before the match, is left out: a TLA+
\* string cannot hold a backtick, so no text of the model contains one.)
RECURSIVE Expand(_, _, _)
Expand(repl, matched, after) ==
  IF repl = <<>> THEN <<>>
  ELSE IF Head(repl) = "$" /\ Len(repl) >= 2 /\ repl[2] \in {"$", "&", "'"}
       THEN (CASE repl[2] = "$" -> <<"$">>
               [] repl[2] = "&" -> matched
               [] OTHER -> after)
            \o Expand(Slice(repl, 3, Len(repl)), matched, after)
       ELSE <<Head(repl)>> \o Expand(Tail(repl), matched, after)

\* s.replace(find, repl) with a string pattern: the first occurrence only.
ReplaceFirst(s, find, repl) ==
  LET p == IndexOf(s, find) IN
  IF p = 0 THEN s
  ELSE LET before == Slice(s, 1, p - 1)
           after == Slice(s, p + Len(find), Len(s))
       IN before \o Expand(repl, find, after) \o after

(* ------------------------------------------------------ placeholder codec *)
ColorCodeChars ==
  {"0", "1", "2", "3", "4", "5", "6", "7", "8", "9",
   "a", "b", "c", "d", "e", "f", "k", "l", "m", "n", "o", "r",
   "A", "B", "C", "D", "E", "F", "K", "L", "M", "N", "O", "R"}

VariableChars ==
  {"s", "d", "f", "i", "o", "x", "X", "e", "E", "g", "G", "c", "p", "n"}

\* The array without its last pattern, the escaped percent sign.
PROTECTED_PATTERNS_NoPercent == <<"color", "variable", "named">>

\* The four pattern classes, in the order of the PROTECTED_PATTERNS array.
PROTECTED_PATTERNS == <<"color", "variable", "named", "percent">>

\* Length of the match of pattern class cls that starts at position p, 0 if none.
MatchLenAt(cls, s, p) ==
  CASE cls = "color" ->
         IF p + 1 <= Len(s) /\ s[p] = "&" /\ s[p + 1] \in ColorCodeChars
         THEN 2 ELSE 0
    [] cls = "variable" ->
         IF p + 1 <= Len(s) /\ s[p] = "%" /\ s[p + 1] \in VariableChars
         THEN 2 ELSE 0
    [] cls = "named" ->
         IF s[p] = "{" /\ p + 2 <= Len(s) /\ s[p + 1] # "}"
         THEN LET close == IndexFrom(s, <<"}">>, p + 2)
              IN IF close = 0 THEN 0 ELSE close - p + 1
         ELSE 0
    [] OTHER ->
         IF p + 1 <= Len(s) /\ s[p] = "%" /\ s[p + 1] = "%" THEN 2 ELSE 0

\* [...s.matchAll(pattern)]: the matched substrings, leftmost first, not overlapping.
RECURSIVE MatchAllFrom(_, _, _)
MatchAllFrom(cls, s, p) ==
  IF p > Len(s) THEN <<>>
  ELSE LET n == MatchLenAt(cls, s, p) IN
       IF n > 0 THEN <<Slice(s, p, p + n - 1)>> \o MatchAllFrom(cls, s, p + n)
       ELSE MatchAllFrom(cls, s, p + 1)

MatchAll(cls, s) == MatchAllFrom(cls, s, 1)

DigitChars == <<"0", "1", "2", "3", "4", "5", "6", "7", "8", "9">>

RECURSIVE Decimal(_)
Decimal(n) ==
  IF n < 10 THEN <<DigitChars[n + 1]>>
  ELSE Decimal(n \div 10) \o <<DigitChars[(n % 10) + 1]>>

\* The token without its number taken from placeholderIndex: always number 0.
Placeholder_Unnumbered(placeholderIndex) ==
  <<"[", "[", "P", "R", "O", "T", "E", "C", "T", "E", "D", "_", "0", "]", "]">>

\* The token [[PROTECTED_n]] for placeholderIndex n.
Placeholder(placeholderIndex) ==
  <<"[", "[", "P", "R", "O", "T", "E", "C", "T", "E", "D", "_">>
  \o Decimal(placeholderIndex) \o <<"]", "]">>

\* The inner forEach of protectPlaceholders: every match of one class gets the
\* next token and its first occurrence in the current text is replaced.
RECURSIVE ProtectMatches(_, _)
ProtectMatches(acc, matches) ==
  IF matches = <<>> THEN acc
  ELSE LET original == Head(matches)
           placeholder == Placeholder(Len(acc.map))
       IN ProtectMatches(
            [text |-> ReplaceFirst(acc.text, original, placeholder),
             map |-> Append(acc.map, [placeholder |-> placeholder, original |-> original,
                                      index |-> Len(acc.map)])],
            Tail(matches))

\* The outer forEach of protectPlaceholders: the classes one after the other,
\* each working on the text the classes before it have left.
RECURSIVE ProtectClasses(_, _)
ProtectClasses(acc, k) ==
  IF k > Len(PROTECTED_PATTERNS) THEN acc
  ELSE CHOOSE done \in
         {ProtectClasses(next, k + 1) :
            next \in {ProtectMatches(acc, MatchAll(PROTECTED_PATTERNS[k], acc.text))}} : TRUE

protectPlaceholders(text) ==
  IF text = <<>> THEN [text |-> <<>>, map |-> <<>>]
  ELSE ProtectClasses([text |-> text, map |-> <<>>], 1)

RECURSIVE RestoreFrom(_, _, _)
RestoreFrom(text, map, k) ==
  IF k = 0 THEN text
  ELSE CHOOSE done \in
         {RestoreFrom(restoredText, map, k - 1) :
            restoredText \in {ReplaceFirst(text, map[k].placeholder, map[k].original)}} : TRUE

restorePlaceholders(text, map) ==
  IF text = <<>> \/ map = <<>> THEN text
  ELSE RestoreFrom(text, map, Len(map))

shouldTranslate(text) ==
  /\ text # <<>>
  /\ Trim(text) # <<>>
  /\ \E masked \in {protectPlaceholders(text).text} : Trim(masked) # <<>>

(* ------------------------------------------------------- translation client *)
\* The guard with the comparison off by one: one retry fewer.
CanRetry_OffByOne(n) == n < MAX_RETRIES

\* The guard letting one more retry through.
CanRetry_OneMore(n) == n <= MAX_RETRIES + 1

\* The guard of both retry branches of translateWithRetry.
CanRetry(n) == n <= MAX_RETRIES

\* The delay with the exponent taken from the attempt itself: 2000, 4000, 8000.
RetryDelay_ExponentOff(n) == Min(INITIAL_RETRY_DELAY * Pow2(n), MAX_RETRY_DELAY)

\* retryDelay of translateWithRetry, in milliseconds.
RetryDelay(n) == Min(INITIAL_RETRY_DELAY * Pow2(n - 1), MAX_RETRY_DELAY)

\* What one transport request can come back with: a translation, HTTP 429, a
\* network error with code ECONNRESET or ETIMEDOUT, a non-2xx status other than
\* 429, a 2xx body without translations.
Responses == {"ok", "429", "reset", "http", "empty"}

\* Every failure taken for one to retry on.
Retryable_AnyFailure(kind) == kind # "ok"

\* The responses translateWithRetry retries on.
Retryable(kind) == kind \in {"429", "reset"}

\* The message of the error translateWithRetry throws for a response.
ErrorMessage(kind) ==
  CASE kind = "429" -> "Max retries reached due to rate limiting"
    [] kind = "reset" -> "ECONNRESET"
    [] kind = "http" -> "DeepL API error"
    [] OTHER -> "No translation returned from DeepL API"

\* What the console.error of a handler's catch block names the unit by, for the
\* unit at loop index k: its value, the key of its entry, the number of its line,
\* its number in the list of strings, or nothing.
NoSubject == [by |-> "none", text |-> <<>>, at |-> 0]
Subject(h, item, k) ==
  CASE h \in {"yaml", "json", "ini", "toml"} -> [by |-> "value", text |-> item.value, at |-> 0]
    [] h = "properties" -> [by |-> "key", text |-> <<>>, at |-> item.key]
    [] h = "txt" -> [by |-> "line", text |-> <<>>, at |-> item.key]
    [] h = "snbt" -> [by |-> "string", text |-> <<>>, at |-> k + 1]
    [] OTHER -> NoSubject

\* The remote translation of a request text: the service is an input of the
\* program, represented by one that turns a into b and b into c and leaves every
\* other character (the tokens among them) as it is.
RECURSIVE Translate(_)
Translate(text) ==
  IF text = <<>> THEN <<>>
  ELSE <<(CASE Head(text) = "a" -> "b" [] Head(text) = "b" -> "c" [] OTHER -> Head(text))>>
       \o Translate(Tail(text))

(* ------------------------------------------------------------ the handlers *)
Handlers == {"yaml", "json", "txt", "snbt", "properties", "ini", "xml", "toml"}

\* The handlers whose parse step is a library call that throws on malformed input.
Parsing(h) == h \in {"yaml", "json", "ini", "xml", "toml"}

\* The handlers that copy the input to the output when nothing is translatable.
CopiesOnEmpty(h) == h \notin {"yaml", "json"}

\* The leaf values a document is built from: two texts that open with a colour
\* code, the second the remote translation of the first, and a blank one.
Texts == {<<"&", "a", "a">>, <<"&", "a", "b">>, <<" ">>}

\* What the one-line texts of the codec jobs are put together from: a colour
\* code, a printf marker, a named placeholder, an escaped percent sign, a letter, a
\* blank, a positional printf marker, a named placeholder whose name is a dollar
\* pattern of String.prototype.replace, and a colour code inside braces.
Pieces ==
  {<<"&", "a">>, <<"%", "s">>, <<"{", "p", "}">>, <<"%", "%">>, <<"H">>, <<" ">>,
   <<"%", "1", "$", "s">>, <<"{", "$", "&", "}">>, <<"{", "&", "a", "}">>}

RECURSIVE Concat(_)
Concat(parts) == IF parts = <<>> THEN <<>> ELSE Head(parts) \o Concat(Tail(parts))

RECURSIVE SeqsUpTo(_, _)
SeqsUpTo(S, n) ==
  IF n = 0 THEN {<<>>}
  ELSE LET shorter == SeqsUpTo(S, n - 1)
       IN shorter \cup {Append(d, t) : d \in {x \in shorter : Len(x) = n - 1}, t \in S}

Documents == SeqsUpTo(Texts, MaxUnits)

CodecTexts == {Concat(parts) : parts \in SeqsUpTo(Pieces, MaxPieces)}

\* translatedLines.join('\n') of the TXT handler: the text of a list of lines.
RECURSIVE JoinLines(_)
JoinLines(lines) ==
  IF Len(lines) = 0 THEN <<>>
  ELSE IF Len(lines) = 1 THEN lines[1]
  ELSE lines[1] \o <<"\n">> \o JoinLines(Tail(lines))

\* fileContent.split(/\r?\n/) of the TXT handler: the lines of a text, `line`
\* being the characters already read of the line in hand.
RECURSIVE SplitFrom(_, _)
SplitFrom(text, line) ==
  IF text = <<>> THEN <<line>>
  ELSE IF Head(text) = "\n" THEN <<line>> \o SplitFrom(Tail(text), <<>>)
  ELSE IF Head(text) = "\r" /\ Len(text) > 1 /\ text[2] = "\n"
       THEN <<line>> \o SplitFrom(Tail(Tail(text)), <<>>)
  ELSE SplitFrom(Tail(text), Append(line, Head(text)))
SplitLines(text) == SplitFrom(text, <<>>)

\* The in-memory document right after reading and parsing.
ParseDocument(h, content) ==
  IF h = "properties" THEN [k \in 1..Len(content) |-> Trim(content[k])]
  ELSE content

\* How the leaves of a parsed document sit in it: as the values of a mapping, as
\* the elements of an array, or a single string that is the root itself; the
\* line-based handlers (TXT, SNBT, properties) know lines only.  The TOML and INI
\* parsers always return a table, an XML document has a root element.
Layouts(h, content) ==
  CASE h \in {"yaml", "json"} ->
         {"mapping", "array"} \cup (IF Len(content) = 1 THEN {"root"} ELSE {})
    [] h \in {"toml", "ini", "xml"} -> {"mapping", "array"}
    [] OTHER -> {"lines"}

\* The key argument collectTranslatableValues is called with for leaf k: the
\* default null for the root, the number index of forEach for an array element in
\* the JSON and TOML handlers, and otherwise the string Object.entries gives (a
\* property name, or the index of an array element as a string).
LeafKey(h, layout, k) ==
  CASE layout = "root" -> [kind |-> "null", at |-> 0]
    [] layout = "array" /\ h \in {"json", "toml"} -> [kind |-> "number", at |-> k - 1]
    [] OTHER -> [kind |-> "string", at |-> k]

\* JavaScript truthiness of a key: null and the number 0 are falsy, a non-empty
\* string is truthy.
Truthy(key) ==
  CASE key.kind = "null" -> FALSE
    [] key.kind = "number" -> key.at # 0
    [] OTHER -> TRUE

\* Whether leaf k of the parsed document d becomes a translation unit.
IsUnit(h, layout, d, k) ==
  CASE h = "snbt" -> TRUE
    [] h = "properties" -> Len(d[k]) > 0
    [] h \in {"yaml", "json"} ->
         Len(Trim(d[k])) > 0 /\ layout # "root" /\ LeafKey(h, layout, k).kind # "null"
    [] h \in {"toml", "xml"} ->
         Len(Trim(d[k])) > 0 /\ layout # "root" /\ Truthy(LeafKey(h, layout, k))
    [] OTHER -> Len(Trim(d[k])) > 0

RECURSIVE CollectFrom(_, _, _, _)
CollectFrom(h, layout, d, k) ==
  IF k > Len(d) THEN <<>>
  ELSE (IF IsUnit(h, layout, d, k) THEN <<[value |-> d[k], key |-> k]>> ELSE <<>>)
       \o CollectFrom(h, layout, d, k + 1)

\* collectTranslatableValues / translatableLines / translatableEntries /
\* extractQuotedStrings: the units in document order.
collectTranslatableValues(h, layout, d) == CollectFrom(h, layout, d, 1)

\* replaceAll(str, find, replace) of the SNBT handler over the quoted strings.
replaceAll(content, find, replace) ==
  [k \in 1..Len(content) |-> IF content[k] = find THEN replace ELSE content[k]]

\* The write-back gone wrong: the slot is chosen by the unit's rank among the
\* leaves that are not blank instead of by its own key.
WriteBack_ByRank(h, d, item, translated) ==
  IF h = "snbt" THEN replaceAll(d, item.value, translated)
  ELSE [d EXCEPT ![Cardinality({k \in 1..item.key : Len(Trim(d[k])) > 0})] = translated]

\* The write-back adding the translation as a new leaf instead of storing it
\* in the unit's place.
WriteBack_Append(h, d, item, translated) == Append(d, translated)

\* The write-back of one translated unit into the in-memory document.
WriteBack(h, d, item, translated) ==
  IF h = "snbt" THEN replaceAll(d, item.value, translated)
  ELSE [d EXCEPT ![item.key] = translated]

(* ------------------------------------------------- the document as a tree *)
\* What the parsers of the YAML, JSON and XML handlers return: a string, an
\* object with its entries in its own property order, or an array, whose own
\* property names are its indices.
StringNode(v) == [type |-> "string", value |-> v, children |-> <<>>]
ObjectNode(keys, nodes) ==
  [type |-> "object", value |-> <<>>,
   children |-> [k \in 1..Len(nodes) |-> [key |-> keys[k], node |-> nodes[k]]]]
ArrayNode(nodes) ==
  [type |-> "array", value |-> <<>>,
   children |-> [k \in 1..Len(nodes) |-> [key |-> Decimal(k - 1), node |-> nodes[k]]]]

\* commentPropName of the XML parser, and the prefix it gives attribute names.
CommentProp == <<"#", "c", "o", "m", "m", "e", "n", "t">>
AttributePrefix == <<"@", "_">>

\* The property names of an object, in order: plain names, or names among which
\* stand an attribute or the comment property of an XML element.
PlainKeys == <<<<"k">>, <<"m">>, <<"n">>>>
ElementKeys == {<<<<"k">>, AttributePrefix \o <<"i", "d">>, <<"m">>>>,
                <<CommentProp, <<"k">>, AttributePrefix \o <<"i", "d">>>>}
KeyOrders(h) == IF h = "xml" THEN ElementKeys ELSE {PlainKeys}

\* The strings of the trees, and the lists of none, one or two of them.
Leaves == {StringNode(<<"a">>), StringNode(<<" ">>)}
LeafLists == {<<>>} \cup {<<x>> : x \in Leaves} \cup {<<x, y>> : x, y \in Leaves}

\* The objects and the arrays with one of the lists as their children.
Containers(h, lists) ==
  {ObjectNode(keys, c) : keys \in KeyOrders(h), c \in lists} \cup {ArrayNode(c) : c \in lists}

\* The nodes below the root: a string, or a container of strings.
Inner(h) == Leaves \cup Containers(h, LeafLists)

\* The parsed documents: a container of at most MaxChildren nodes, or for YAML
\* and JSON a bare string.
Trees(h) ==
  (IF h = "xml" THEN {} ELSE Leaves) \cup Containers(h, SeqsUpTo(Inner(h), MaxChildren))

\* The key argument of collectTranslatableValues: the default null, the number
\* forEach gives, or the string Object.entries gives.
NullKey == [kind |-> "null", at |-> 0, name |-> <<>>]
NumberKey(index) == [kind |-> "number", at |-> index, name |-> <<>>]
StringKey(k) == [kind |-> "string", at |-> 0, name |-> k]

\* The parent argument: the default null, or a container, known by the positions
\* that lead to it from the root.
NullParent == [null |-> TRUE, path |-> <<>>]
Parent(path) == [null |-> FALSE, path |-> path]

\* The children visited last to first.
Visit_Descending(n) == [k \in 1..n |-> n + 1 - k]

\* The order in which forEach and the loop over Object.entries take the n
\* children of a container: first to last.
Visit(n) == [k \in 1..n |-> k]

\* The test under which a string is pushed, handler by handler.
Pushes(h, obj, parent, key) ==
  CASE h \in {"yaml", "json"} -> ~parent.null /\ key.kind # "null"
    [] h \in {"toml", "xml"} ->
         Len(Trim(obj.value)) > 0 /\ ~parent.null /\ Truthy(key)
    [] OTHER -> Len(Trim(obj.value)) > 0

\* The walk of the XML handler passing over no entry.
Skips_Nothing(h, k) == FALSE

\* The entries the walk passes over: in the XML handler those whose name starts
\* with @ (the attributes) and the comment property.
Skips(h, k) == h = "xml" /\ (StartsAt(k, <<"@">>, 1) \/ k = CommentProp)

\* collectTranslatableValues(obj, translations, parent, key) on the node at the
\* positions `me`: the units it pushes, in order.
RECURSIVE CollectTree(_, _, _, _, _), CollectChildren(_, _, _, _)
CollectChildren(h, obj, me, n) ==
  IF n > Len(obj.children) THEN <<>>
  ELSE LET k == Visit(Len(obj.children))[n]
           entry == obj.children[k]
           key == IF obj.type = "array" /\ h \in {"json", "toml"}
                  THEN NumberKey(k - 1) ELSE StringKey(entry.key)
       IN (IF Skips(h, entry.key) THEN <<>>
           ELSE CollectTree(h, entry.node, Parent(me), key, Append(me, k)))
          \o CollectChildren(h, obj, me, n + 1)
CollectTree(h, obj, parent, key, me) ==
  IF obj.type = "string"
  THEN IF h \in {"yaml", "json"} /\ Len(Trim(obj.value)) = 0 THEN <<>>
       ELSE IF Pushes(h, obj, parent, key)
       THEN <<[value |-> obj.value, ref |-> parent.path, key |-> key]>>
       ELSE <<>>
  ELSE CollectChildren(h, obj, me, 1)

\* The array of the run before handed to collectTranslatableValues again.
NewArray_Reused(before) == before

\* const translations = []: the array the handler hands to the walk.
NewArray(before) == <<>>

\* The node at the end of a path of positions.
RECURSIVE NodeAt(_, _)
NodeAt(node, path) ==
  IF path = <<>> THEN node ELSE NodeAt(node.children[Head(path)].node, Tail(path))

\* The position in its parent of the child a key names.
KeyPosition(parent, key) ==
  CHOOSE k \in 1..Len(parent.children) :
    IF key.kind = "number" THEN k - 1 = key.at ELSE parent.children[k].key = key.name

\* The positions from the root of the leaf a unit refers to.
PathOf(root, item) == Append(item.ref, KeyPosition(NodeAt(root, item.ref), item.key))

\* item.ref[item.key] = translated, in the tree.
RECURSIVE SetAt(_, _, _)
SetAt(node, path, translated) ==
  IF path = <<>> THEN StringNode(translated)
  ELSE [node EXCEPT !.children[Head(path)].node = SetAt(@, Tail(path), translated)]

(* ------------------------------------------- the lines of a properties file *)
\* The lines a properties file is put together from: comments, an empty and a
\* blank line, a line without separator, properties written with = and with :,
\* with and without spaces, a property without value and a line without key.
PropertyLines ==
  {<<"#", "a">>, <<"!", "a">>, <<>>, <<" ">>, <<"k">>,
   <<"k", "=", "a">>, <<"k", ":", "a">>, <<" ", "k", " ", "=", " ", "a", " ">>,
   <<"k", "=">>, <<"=", "a">>}

\* The files: split gives at least one line.
PropertyFiles == SeqsUpTo(PropertyLines, MaxUnits) \ {<<>>}

\* The position of the first = or : of a line, 0 when there is none.
SeparatorAt(line) ==
  IF \E p \in 1..Len(line) : line[p] \in {"=", ":"}
  THEN CHOOSE p \in 1..Len(line) :
         /\ line[p] \in {"=", ":"}
         /\ \A q \in 1..(p - 1) : line[q] \notin {"=", ":"}
  ELSE 0

\* The entry the parse loop pushes for the line at index `index`.
ParseLine(line, index) ==
  LET trimmed == Trim(line)
      at == SeparatorAt(line)
  IN IF trimmed = <<>> \/ StartsAt(trimmed, <<"#">>, 1) \/ StartsAt(trimmed, <<"!">>, 1)
     THEN [type |-> "comment", content |-> line, key |-> <<>>, value |-> <<>>,
           index |-> index]
     ELSE IF at > 1
     THEN [type |-> "property", content |-> line, key |-> Trim(Slice(line, 1, at - 1)),
           value |-> Trim(Slice(line, at + 1, Len(line))), index |-> index]
     ELSE [type |-> "comment", content |-> line, key |-> <<>>, value |-> <<>>,
           index |-> index]

\* entries: one entry for every line.
ParseProperties(lines) == [k \in 1..Len(lines) |-> ParseLine(lines[k], k - 1)]

\* translatableEntries: the properties with a value, each known by the place of
\* its entry.
RECURSIVE TranslatableFrom(_, _)
TranslatableFrom(entries, k) ==
  IF k > Len(entries) THEN <<>>
  ELSE (IF entries[k].type = "property" /\ Len(entries[k].value) > 0
        THEN <<[value |-> entries[k].value, key |-> k]>> ELSE <<>>)
       \o TranslatableFrom(entries, k + 1)

\* Every entry emitted as key=value, the comments too.
Emit_AsProperty(e) == e.key \o <<"=">> \o e.value

\* The line emitted for an entry when the content of the file is rebuilt.
Emit(e) == IF e.type = "comment" THEN e.content ELSE e.key \o <<"=">> \o e.value

\* The lines of the output rebuilt from the entries.
RebuildLines(entries) == [k \in 1..Len(entries) |-> Emit(entries[k])]

(* ------------------------------------------------------------------- state *)
VARIABLES
  inputDir,       \* INPUT_DIR, resolved
  outputDir,      \* OUTPUT_DIR, resolved
  handler,        \* which format handler runs this job
  fileContent,    \* the input document as read from inputPath
  malformed,      \* whether the handler's parse call throws on it
  layout,         \* how its leaves sit in the parsed document
  pc,             \* where the job stands: start, copy, top, fetch, delay, write, done, aborted
  data,           \* the in-memory document (data, translatedLines, entries, translatedContent)
  translatable,   \* the extracted units, in extraction order
  i,              \* the loop index: units resolved so far
  attempt,        \* the attempt parameter of translateWithRetry
  protectedText,  \* the text of the request in hand
  map,            \* the placeholder map of the unit in hand
  translations,   \* the Map of the SNBT handler, as a set of <<original, stored>>
  inFlight,       \* transport requests sent and not yet answered
  sleeping,       \* backoff timers started and not yet fired
  writing,        \* writeFile calls started and not yet completed
  pending,        \* the content handed to the writeFile call in progress
  outDir,         \* whether the output directory has been ensured
  outExists,      \* whether a file exists at outputPath
  outFile,        \* its content
  inputFile,      \* the content of the file at inputPath
  writtenPaths,   \* the paths writeFile has been called on and has written
  progress,       \* the last value given to progressBar.update
  warning,        \* the message console.error printed in the last step, or none
  subject,        \* what that message names the unit by
  result,         \* per unit: pending, applied, passed, failed, dup, kept
  returned,       \* per unit: the text translateText returned
  invocations,    \* per unit: the texts translateText was called with, in order
  requests,       \* transport requests issued by the translateText call in hand
  fails,          \* retryable failures (429, ECONNRESET, ETIMEDOUT) it received
  limited,        \* how many of them were 429 responses
  waits,          \* the backoff delays it slept, in order
  outcome,        \* none, active, ok (returned a translation), thrown
  writes,         \* completed writeFile calls of the job
  again,          \* the units of a second run of the extraction, once it has run
  texts,          \* translateBatch: the texts it was called with
  onProgress,     \* translateBatch: the callback it was called with
  results         \* translateBatch: its results array

vars == <<inputDir, outputDir, handler, fileContent, malformed, layout, pc, data,
          translatable, i, attempt, protectedText, map, translations, inFlight, sleeping,
          writing, pending, outDir, outExists, outFile, inputFile, writtenPaths, progress,
          warning, subject, result, returned, invocations, requests, fails, limited, waits, outcome,
          writes, again, texts, onProgress, results>>

input == <<inputDir, outputDir, handler, fileContent, malformed, layout>>
call == <<attempt, protectedText, map, requests, fails, limited, waits, outcome>>
file == <<outExists, outFile, inputFile, writtenPaths, writes>>
batch == <<texts, onProgress, results>>

\* The directories INPUT_DIR and OUTPUT_DIR can name, as lists of path segments;
\* the first two are those of the README's .env.
Dirs == {<<"to_translate">>, <<"translated">>}

\* The path of the selected file below the scanned directory.
SelectedFile == <<"messages">>

\* path.join and path.relative, for a path that lies below `from`.
join(dir, rel) == dir \o rel
relative(from, to) == Slice(to, Len(from) + 1, Len(to))

\* selectedFile.path: the scan joins the scanned directory and the entry's name.
inputPath == join(inputDir, SelectedFile)

\* The output path main hands to the handler.
outputPath == join(outputDir, relative(inputDir, inputPath))

\* No call of translateBatch: no handler and no other code of the repository
\* calls it.
NoBatch ==
  /\ texts = <<>>
  /\ onProgress = "null"
  /\ results = <<>>

\* The job's own state when main calls the handler: nothing read, nothing sent,
\* nothing written.
JobStart ==
  /\ pc = "start"
  /\ data = <<>>
  /\ translatable = <<>>
  /\ i = 0
  /\ attempt = 0
  /\ protectedText = <<>>
  /\ map = <<>>
  /\ translations = {}
  /\ inFlight = 0
  /\ sleeping = 0
  /\ writing = 0
  /\ pending = <<>>
  /\ outDir = FALSE
  /\ outExists = (outputPath = inputPath)
  /\ outFile = (IF outputPath = inputPath THEN fileContent ELSE <<>>)
  /\ inputFile = fileContent
  /\ writtenPaths = {}
  /\ progress = 0
  /\ warning = "none"
  /\ subject = NoSubject
  /\ result = <<>>
  /\ returned = <<>>
  /\ invocations = <<>>
  /\ requests = 0
  /\ fails = 0
  /\ limited = 0
  /\ waits = <<>>
  /\ outcome = "none"
  /\ writes = 0
  /\ again = [ran |-> FALSE, units |-> <<>>]

\* A job of any handler over any document, with the directories of the README.
Init ==
  /\ inputDir = <<"to_translate">>
  /\ outputDir = <<"translated">>
  /\ handler \in Handlers
  /\ fileContent \in Documents
  /\ malformed \in (IF Parsing(handler) THEN BOOLEAN ELSE {FALSE})
  /\ layout \in (IF malformed THEN {"mapping"} ELSE Layouts(handler, fileContent))
  /\ NoBatch
  /\ JobStart

\* A job of the TXT handler over a file of one line, the line any text put
\* together from the pieces: every line that is not blank is handed to
\* translateText as it stands.
CodecInit ==
  /\ inputDir = <<"to_translate">>
  /\ outputDir = <<"translated">>
  /\ handler = "txt"
  /\ fileContent \in {<<t>> : t \in CodecTexts}
  /\ malformed = FALSE
  /\ layout = "lines"
  /\ NoBatch
  /\ JobStart

\* A job of the TXT or the JSON handler with any two directories configured.
PathInit ==
  /\ inputDir \in Dirs
  /\ outputDir \in Dirs
  /\ handler \in {"txt", "json"}
  /\ fileContent \in Documents
  /\ malformed = FALSE
  /\ layout \in Layouts(handler, fileContent)
  /\ NoBatch
  /\ JobStart

\* A job of the YAML, the JSON or the XML handler over a parsed document given
\* as a tree.
TreeInit ==
  /\ inputDir = <<"to_translate">>
  /\ outputDir = <<"translated">>
  /\ handler \in {"yaml", "json", "xml"}
  /\ fileContent \in Trees(handler)
  /\ malformed = FALSE
  /\ layout = "tree"
  /\ NoBatch
  /\ JobStart

\* A job of the properties handler over a file given line by line.
PropertiesInit ==
  /\ inputDir = <<"to_translate">>
  /\ outputDir = <<"translated">>
  /\ handler = "properties"
  /\ fileContent \in PropertyFiles
  /\ malformed = FALSE
  /\ layout = "entries"
  /\ NoBatch
  /\ JobStart

\* The callbacks translateBatch can be given: none (the default, null), one that
\* returns, one that can throw.
Callbacks == {"null", "returns", "throws"}

\* A call of translateBatch over any texts with any callback, about to start.
BatchInit ==
  /\ inputDir = <<"to_translate">>
  /\ outputDir = <<"translated">>
  /\ handler = "txt"
  /\ fileContent = <<>>
  /\ malformed = FALSE
  /\ layout = "lines"
  /\ texts \in SeqsUpTo(Texts, MaxUnits)
  /\ onProgress \in Callbacks
  /\ results = <<>>
  /\ JobStart

(* ----------------------------------------------------------------- actions *)
\* The record of the calls of translateText for a unit after one more call with
\* `text`; it keeps the first two calls.
Called(calls, text) == IF Len(calls) < 2 THEN Append(calls, text) ELSE calls

\* fs.writeFile(outputPath, content) has completed: the file at that path holds
\* the content, and so does the input file when the two paths are one.
writeFile(content) ==
  /\ outFile' = content
  /\ outExists' = TRUE
  /\ inputFile' = IF outputPath = inputPath THEN content ELSE inputFile
  /\ writtenPaths' = writtenPaths \cup {outputPath}
  /\ writes' = writes + 1

\* The Map asked only for the strings it holds a different string for: a string
\* kept as it was or one that failed is not found.
Has_ChangedOnly(original) == \E e \in translations : e[1] = original /\ e[2] # original

\* translations.has(original) of the SNBT handler.
Has(original) == \E e \in translations : e[1] = original

\* The serializer handed the document as it was parsed, not the current one.
Serialize_Input(h, d) == ParseDocument(h, fileContent)

\* The serialization handed to writeFile: the whole current document, leaf by leaf.
Serialize(h, d) == d

\* The writeFile call not awaited: the loop goes on while the write is in progress.
AfterWriteStart_NotAwaited(k) == [pc |-> "top", i |-> k + 1]

\* Where the loop stands once writeFile has been called: the call is awaited, so
\* the unit is still the one in hand.
AfterWriteStart(k) == [pc |-> "write", i |-> k]

\* The loop without its catch block: the error leaves the handler.
CatchBlock_Rethrow(k) == [pc |-> "aborted", i |-> k]

\* The catch block leaving the loop index where it was: the unit is taken up again.
CatchBlock_Again(k) == [pc |-> "top", i |-> k]

\* Where the job stands after the catch block of the loop has run for unit k.
CatchBlock(k) == [pc |-> "top", i |-> k + 1]

\* The catch block storing the error message in the unit's place.
OnError_StoreMessage(h, d, item, message) == WriteBack(h, d, item, message)

\* The in-memory document after the catch block of the loop has run for a unit:
\* the block logs and updates the progress bar, and leaves the document alone.
OnError(h, d, item, message) == d

\* The output directory ensured before the input is parsed.
OnParseError_DirFirst == [pc |-> "aborted", outDir |-> TRUE]

\* Where the job stands when the parse call has thrown: the error leaves the
\* handler and main exits; fs.ensureDir has not been reached.
OnParseError == [pc |-> "aborted", outDir |-> FALSE]

\* The handler from its entry to its first await that matters: read, parse,
\* extract, and either the early return of the empty case or the loop.
Start ==
  /\ pc = "start"
  /\ layout \notin {"tree", "entries"}
  /\ IF malformed
     THEN /\ pc' = OnParseError.pc
          /\ outDir' = OnParseError.outDir
          /\ UNCHANGED <<data, translatable, result, returned, invocations, writing,
                         pending>>
     ELSE LET d == ParseDocument(handler, fileContent)
              ts == collectTranslatableValues(handler, layout, d)
          IN /\ data' = d
             /\ translatable' = ts
             /\ result' = [k \in 1..Len(ts) |-> "pending"]
             /\ returned' = [k \in 1..Len(ts) |-> <<>>]
             /\ invocations' = [k \in 1..Len(ts) |-> <<>>]
             /\ IF Len(ts) = 0
                THEN IF CopiesOnEmpty(handler)
                     THEN /\ outDir' = TRUE
                          /\ writing' = writing + 1
                          /\ pending' = fileContent
                          /\ pc' = "copy"
                     ELSE /\ pc' = "done"
                          /\ UNCHANGED <<outDir, writing, pending>>
                ELSE /\ outDir' = TRUE
                     /\ pc' = "top"
                     /\ UNCHANGED <<writing, pending>>
  /\ UNCHANGED <<batch, input, again, i, translations, inFlight, sleeping, progress, warning,
                 subject, call, file>>

\* The writeFile of the empty case completes and the handler returns.
CopyDone ==
  /\ pc = "copy"
  /\ writeFile(pending)
  /\ writing' = writing - 1
  /\ pc' = "done"
  /\ UNCHANGED <<batch, input, again, data, translatable, i, translations, inFlight, sleeping,
                 pending, outDir, progress, warning, subject, result, returned, invocations, call>>

\* translateText has returned `translated` for the unit in hand: the rest of the
\* try block up to the awaited writeFile.
Returned(translated, status) ==
  LET item == translatable[i + 1]
      d == WriteBack(handler, data, item, translated)
  IN /\ data' = d
     /\ translations' = IF handler = "snbt"
                        THEN translations \cup {<<item.value, translated>>}
                        ELSE translations
     /\ result' = [result EXCEPT ![i + 1] = status]
     /\ returned' = [returned EXCEPT ![i + 1] = translated]
     /\ pending' = Serialize(handler, d)
     /\ writing' = writing + 1
     /\ pc' = AfterWriteStart(i).pc
     /\ i' = AfterWriteStart(i).i
     /\ progress' = IF AfterWriteStart(i).i = i THEN progress ELSE i + 1

\* One iteration of the loop up to its first await: the SNBT shortcuts, the
\* checks of translateText, and the first transport request.
BeginUnit ==
  /\ pc = "top"
  /\ i < Len(translatable)
  /\ warning' = "none"
  /\ subject' = NoSubject
  /\ fails' = 0
  /\ limited' = 0
  /\ waits' = <<>>
  /\ LET item == translatable[i + 1]
     IN \E p \in {protectPlaceholders(item.value)} :
        IF handler = "snbt" /\ Has(item.value)
        THEN /\ result' = [result EXCEPT ![i + 1] = "dup"]
             /\ progress' = i + 1
             /\ i' = i + 1
             /\ attempt' = 0
             /\ requests' = 0
             /\ outcome' = "none"
             /\ UNCHANGED <<pc, data, translations, returned, invocations, inFlight,
                            pending, writing, protectedText, map>>
        ELSE IF handler = "snbt" /\ Len(Trim(item.value)) = 0
        THEN /\ translations' = translations \cup {<<item.value, item.value>>}
             /\ result' = [result EXCEPT ![i + 1] = "kept"]
             /\ progress' = i + 1
             /\ i' = i + 1
             /\ attempt' = 0
             /\ requests' = 0
             /\ outcome' = "none"
             /\ UNCHANGED <<pc, data, returned, invocations, inFlight, pending, writing,
                            protectedText, map>>
        ELSE IF ~shouldTranslate(item.value) \/ ~shouldTranslate(p.text)
        THEN /\ Returned(item.value, "passed")
             /\ invocations' = [invocations EXCEPT ![i + 1] = Called(@, item.value)]
             /\ attempt' = 0
             /\ requests' = 0
             /\ outcome' = "none"
             /\ UNCHANGED <<inFlight, protectedText, map>>
        ELSE /\ invocations' = [invocations EXCEPT ![i + 1] = Called(@, item.value)]
             /\ protectedText' = p.text
             /\ map' = p.map
             /\ attempt' = 1
             /\ requests' = 1
             /\ outcome' = "active"
             /\ inFlight' = inFlight + 1
             /\ pc' = "fetch"
             /\ UNCHANGED <<data, translations, i, progress, result, returned,
                            pending, writing>>
  /\ UNCHANGED <<batch, input, again, translatable, sleeping, outDir, file>>

\* The transport answers the request in flight.
Respond(kind) ==
  /\ pc = "fetch"
  /\ inFlight' = inFlight - 1
  /\ fails' = IF Retryable(kind) THEN fails + 1 ELSE fails
  /\ limited' = IF kind = "429" THEN limited + 1 ELSE limited
  /\ IF kind = "ok"
     THEN /\ outcome' = "ok"
          /\ \E restoredText \in {restorePlaceholders(Translate(protectedText), map)} :
               Returned(restoredText, "applied")
          /\ UNCHANGED <<warning, subject, waits, sleeping>>
     ELSE IF Retryable(kind) /\ CanRetry(attempt)
     THEN /\ waits' = Append(waits, RetryDelay(attempt))
          /\ sleeping' = sleeping + 1
          /\ pc' = "delay"
          /\ UNCHANGED <<data, translations, i, progress, warning, subject, result, returned,
                         pending, writing, outcome>>
     ELSE /\ outcome' = "thrown"
          /\ warning' = ErrorMessage(kind)
          /\ subject' = Subject(handler, translatable[i + 1], i)
          /\ result' = [result EXCEPT ![i + 1] = "failed"]
          /\ translations' = IF handler = "snbt"
                             THEN translations \cup
                                    {<<translatable[i + 1].value, translatable[i + 1].value>>}
                             ELSE translations
          /\ progress' = i + 1
          /\ pc' = CatchBlock(i).pc
          /\ i' = CatchBlock(i).i
          /\ data' = OnError(handler, data, translatable[i + 1], <<"E">>)
          /\ UNCHANGED <<returned, pending, writing, waits, sleeping>>
  /\ UNCHANGED <<batch, input, again, translatable, invocations, attempt, protectedText, map, requests,
                 outDir, file>>

\* The backoff timer fires and translateWithRetry calls itself with attempt + 1.
DelayDone ==
  /\ pc = "delay"
  /\ sleeping' = sleeping - 1
  /\ attempt' = attempt + 1
  /\ requests' = requests + 1
  /\ inFlight' = inFlight + 1
  /\ pc' = "fetch"
  /\ UNCHANGED <<batch, input, again, data, translatable, i, protectedText, map, translations,
                 writing, pending, outDir, progress, warning, subject, result, returned,
                 invocations, fails, limited, waits, outcome, file>>

\* The awaited writeFile of the loop completes; the progress bar is updated and
\* the loop moves on.
WriteDone ==
  /\ pc = "write"
  /\ writeFile(pending)
  /\ writing' = writing - 1
  /\ progress' = i + 1
  /\ i' = i + 1
  /\ pc' = "top"
  /\ UNCHANGED <<batch, input, again, data, translatable, translations, inFlight, sleeping, pending,
                 outDir, warning, subject, result, returned, invocations, call>>

\* The loop has run over every unit: the handler returns to main.
Finish ==
  /\ pc = "top"
  /\ i >= Len(translatable)
  /\ pc' = "done"
  /\ UNCHANGED <<batch, input, again, data, translatable, i, translations, inFlight, sleeping, writing,
                 pending, outDir, progress, warning, subject, result, returned, invocations, call,
                 file>>

\* The handler over a tree, from its entry to its loop: the parsed document is
\* the in-memory one, and the walk fills a new array.
Extract ==
  /\ pc = "start"
  /\ layout = "tree"
  /\ data' = fileContent
  /\ \E ts \in {NewArray(<<>>) \o CollectTree(handler, fileContent, NullParent, NullKey, <<>>)} :
       /\ translatable' = ts
       /\ result' = [k \in 1..Len(ts) |-> "pending"]
       /\ returned' = [k \in 1..Len(ts) |-> <<>>]
       /\ invocations' = [k \in 1..Len(ts) |-> <<>>]
  /\ pc' = "top"
  /\ UNCHANGED <<batch, input, again, i, translations, inFlight, sleeping, writing, pending, outDir,
                 progress, warning, subject, call, file>>

\* One iteration of the loop over a tree, with a client that answers: the unit's
\* value goes to translateText and the translation is stored through the unit's
\* reference and key.  The texts of the trees hold no placeholder.
TranslateUnit ==
  /\ pc = "top"
  /\ layout = "tree"
  /\ i < Len(translatable)
  /\ LET item == translatable[i + 1]
     IN \E translated \in {Translate(item.value)} :
          /\ invocations' = [invocations EXCEPT ![i + 1] = Called(@, item.value)]
          /\ returned' = [returned EXCEPT ![i + 1] = translated]
          /\ result' = [result EXCEPT ![i + 1] = "applied"]
          /\ data' = SetAt(data, PathOf(data, item), translated)
  /\ i' = i + 1
  /\ progress' = i + 1
  /\ UNCHANGED <<batch, input, again, pc, translatable, translations, inFlight, sleeping,
                 writing, pending, outDir, warning, subject, call, file>>

\* The walk run a second time over the parsed document, at any moment after the
\* first.
ExtractAgain ==
  /\ pc # "start"
  /\ layout = "tree"
  /\ ~again.ran
  /\ again' = [ran |-> TRUE,
               units |-> NewArray(translatable)
                           \o CollectTree(handler, fileContent, NullParent, NullKey, <<>>)]
  /\ UNCHANGED <<batch, input, pc, data, translatable, i, translations, inFlight, sleeping,
                 writing, pending, outDir, progress, warning, subject, result, returned,
                 invocations, call, file>>

\* The properties handler over the lines of a file, from its entry to the copy
\* of the empty case or to its loop.
ReadProperties ==
  /\ pc = "start"
  /\ layout = "entries"
  /\ \E entries \in {ParseProperties(fileContent)} :
       \E ts \in {TranslatableFrom(entries, 1)} :
         /\ data' = entries
         /\ translatable' = ts
         /\ result' = [k \in 1..Len(ts) |-> "pending"]
         /\ returned' = [k \in 1..Len(ts) |-> <<>>]
         /\ invocations' = [k \in 1..Len(ts) |-> <<>>]
         /\ IF Len(ts) = 0
            THEN /\ writing' = writing + 1
                 /\ pending' = fileContent
                 /\ pc' = "copy"
            ELSE /\ pc' = "top"
                 /\ UNCHANGED <<writing, pending>>
  /\ outDir' = TRUE
  /\ UNCHANGED <<batch, input, again, i, translations, inFlight, sleeping, progress, warning,
                 subject, call, file>>

\* One iteration of the loop of the properties handler over the entries, up to
\* its awaited writeFile or through its catch block, as the client returns a
\* translation or throws.  The values of the lines hold no placeholder.
TranslateEntry(ok) ==
  /\ pc = "top"
  /\ layout = "entries"
  /\ i < Len(translatable)
  /\ LET item == translatable[i + 1]
     IN /\ invocations' = [invocations EXCEPT ![i + 1] = Called(@, item.value)]
        /\ IF ok
           THEN \E translated \in {Translate(item.value)} :
                  \E entries \in {[data EXCEPT ![item.key].value = translated]} :
                    /\ data' = entries
                    /\ returned' = [returned EXCEPT ![i + 1] = translated]
                    /\ result' = [result EXCEPT ![i + 1] = "applied"]
                    /\ pending' = RebuildLines(entries)
                    /\ writing' = writing + 1
                    /\ pc' = "write"
                    /\ warning' = "none"
                    /\ subject' = NoSubject
                    /\ UNCHANGED <<i, progress>>
           ELSE /\ result' = [result EXCEPT ![i + 1] = "failed"]
                /\ warning' = ErrorMessage("http")
                /\ subject' = Subject(handler, item, i)
                /\ progress' = i + 1
                /\ i' = i + 1
                /\ UNCHANGED <<pc, data, returned, pending, writing>>
  /\ UNCHANGED <<batch, input, again, translatable, translations, inFlight, sleeping, outDir,
                 call, file>>

\* What translateText returns for a text when the transport answers its request
\* with a translation, and for a text it sends no request for.
translateText(text) ==
  IF ~shouldTranslate(text) THEN text
  ELSE LET p == protectPlaceholders(text)
       IN IF ~shouldTranslate(p.text) THEN text
          ELSE restorePlaceholders(Translate(p.text), p.map)

\* Whether translateText sends a request for the text, and so can throw.
Requests(text) == shouldTranslate(text) /\ shouldTranslate(protectPlaceholders(text).text)

\* translateBatch is entered: the results array is empty, the loop is at its head.
translateBatch ==
  /\ pc = "start"
  /\ pc' = "batch"
  /\ i' = 0
  /\ results' = <<>>
  /\ result' = [k \in 1..Len(texts) |-> "pending"]
  /\ UNCHANGED <<input, again, texts, onProgress, data, translatable, translations, inFlight,
                 sleeping, writing, pending, outDir, progress, warning, subject, returned,
                 invocations, call, file>>

\* One iteration of the loop of translateBatch up to its delay: translateText
\* returns (ok) or throws; after a return the translation is pushed, the callback
\* is called when there is one, and it returns or throws (threw); the catch block
\* pushes the original text, also when it is the callback that threw.
BatchIteration(ok, threw) ==
  /\ pc = "batch"
  /\ i < Len(texts)
  /\ ~ok => Requests(texts[i + 1])
  /\ threw => (ok /\ onProgress = "throws")
  /\ LET text == texts[i + 1]
         pushed == Append(results, translateText(text))
     IN IF ok
        THEN /\ result' = [result EXCEPT ![i + 1] = "applied"]
             /\ progress' = IF onProgress = "null" THEN progress ELSE i + 1
             /\ warning' = IF threw THEN "callback" ELSE "none"
             /\ results' = IF threw THEN Append(pushed, text) ELSE pushed
             /\ IF ~threw /\ i < Len(texts) - 1
                THEN /\ pc' = "pause"
                     /\ sleeping' = sleeping + 1
                     /\ i' = i
                ELSE /\ pc' = "batch"
                     /\ sleeping' = sleeping
                     /\ i' = i + 1
        ELSE /\ result' = [result EXCEPT ![i + 1] = "failed"]
             /\ warning' = ErrorMessage("http")
             /\ results' = Append(results, text)
             /\ pc' = "batch"
             /\ i' = i + 1
             /\ UNCHANGED <<progress, sleeping>>
  /\ UNCHANGED <<input, again, texts, onProgress, data, translatable, translations, inFlight,
                 writing, pending, outDir, subject, returned, invocations, call, file>>

\* The delay(100) between two texts is over: the loop takes the next text.
BatchDelayDone ==
  /\ pc = "pause"
  /\ sleeping' = sleeping - 1
  /\ i' = i + 1
  /\ pc' = "batch"
  /\ UNCHANGED <<input, again, batch, data, translatable, translations, inFlight, writing,
                 pending, outDir, progress, warning, subject, result, returned, invocations,
                 call, file>>

\* The loop of translateBatch is over: results is returned.
BatchReturn ==
  /\ pc = "batch"
  /\ i >= Len(texts)
  /\ pc' = "returned"
  /\ UNCHANGED <<input, again, batch, data, translatable, i, translations, inFlight, sleeping,
                 writing, pending, outDir, progress, warning, subject, result, returned,
                 invocations, call, file>>

Next ==
  \/ Start
  \/ CopyDone
  \/ BeginUnit
  \/ \E kind \in Responses : Respond(kind)
  \/ DelayDone
  \/ WriteDone
  \/ Finish

Spec == Init /\ [][Next]_vars

CodecSpec == CodecInit /\ [][Next]_vars

PathSpec == PathInit /\ [][Next]_vars

TreeNext ==
  \/ Extract
  \/ TranslateUnit
  \/ ExtractAgain
  \/ Finish

TreeSpec == TreeInit /\ [][TreeNext]_vars

PropertiesNext ==
  \/ ReadProperties
  \/ \E ok \in BOOLEAN : TranslateEntry(ok)
  \/ CopyDone
  \/ WriteDone
  \/ Finish

PropertiesSpec == PropertiesInit /\ [][PropertiesNext]_vars

BatchNext ==
  \/ translateBatch
  \/ \E ok, threw \in BOOLEAN : BatchIteration(ok, threw)
  \/ BatchDelayDone
  \/ BatchReturn

BatchSpec == BatchInit /\ [][BatchNext]_vars

\* The jobs followed to their end: one handler of each kind of loop (JSON: parse,
\* walk, return on nothing to translate; TXT: lines, copy on nothing to translate;
\* SNBT: the Map of strings already seen) over the documents of fewer than
\* MaxUnits leaves.
LiveInit ==
  /\ Init
  /\ handler \in {"json", "txt", "snbt"}
  /\ Len(fileContent) < MaxUnits

\* A job in which every step that can be taken is taken in the end: every
\* request is answered, every timer fires, every write returns.
LiveSpec == LiveInit /\ [][Next]_vars /\ WF_vars(Next)

(* ------------------------------------------------------------------ claims *)
Units == 1..Len(translatable)

\* The position in the document (and in the output file) of unit k.
KeyOf(k) == translatable[k].key

\* translateText returned normally for unit k: with a translation (applied) or
\* with the text itself because it is not translatable (passed).
Succeeded(k) == result[k] \in {"applied", "passed"}

\* C1: a translation failure of a unit never aborts the job: once a unit has
\* failed the handler is never aborted, it stands in its loop or has returned, the
\* loop has moved past the failed unit, and when the handler has returned every
\* unit has been attempted (the loop body has run for it).
C1_FailureNeverAborts ==
  \A k \in Units :
    result[k] = "failed" =>
      /\ pc \in {"top", "fetch", "delay", "write", "done"}
      /\ i >= k
      /\ pc = "done" => /\ i = Len(translatable)
                        /\ \A j \in Units : result[j] # "pending"

\* C1 witness: the job is done, a unit failed and a later unit was translated.
C1_Witness ==
  /\ pc = "done"
  /\ \E k \in Units : /\ result[k] = "failed"
                      /\ k < Len(translatable)
                      /\ result[k + 1] = "applied"

\* C2 as claimed: if at least one unit succeeded, then at job end the output holds
\* the value translateText returned at every unit that succeeded and the original
\* text at every unit that failed, and the handler has returned normally.
C2_UnitIsolation ==
  (pc \in {"done", "aborted"} /\ \E k \in Units : Succeeded(k)) =>
    /\ pc = "done"
    /\ outExists
    /\ \A k \in Units :
         /\ Succeeded(k) => outFile[KeyOf(k)] = returned[k]
         /\ result[k] = "failed" => outFile[KeyOf(k)] = translatable[k].value

\* C3 as claimed: once the input has been read and parsed, the job never ends
\* without an output file.
C3_OutputFileExists == pc = "done" => outExists

\* C4 as claimed: with zero translatable units the handler sends no request and
\* writes the input to the output file unchanged.
C4_EmptyJobCopies ==
  (pc = "done" /\ Len(translatable) = 0) =>
    /\ requests = 0
    /\ outExists
    /\ outFile = fileContent

\* C5 as claimed: every step that resolves a unit (the loop index advances) is the
\* completion of a write of the whole current document to the output file.
C5_WriteAfterEveryUnit ==
  [][i' = i + 1 => /\ writes' = writes + 1
                   /\ outExists'
                   /\ outFile' = data']_vars

\* C5 amended: a unit is resolved together with the completion of a write of the
\* whole current document exactly when translateText returned for it (applied or
\* passed); when the client failed, and for a repeated or blank SNBT string, the
\* unit is resolved with the output file untouched.
C5_WriteAfterEveryReturn ==
  [][i' = i + 1 =>
       IF Succeeded(i')
       THEN /\ writes' = writes + 1
            /\ outExists'
            /\ outFile' = data'
       ELSE /\ result'[i'] \in {"failed", "dup", "kept"}
            /\ writes' = writes
            /\ outExists' = outExists
            /\ outFile' = outFile]_vars

\* C5 witness: a unit has just been resolved by a write of the current document,
\* after a failed unit that was resolved without one.
C5_Witness ==
  /\ pc = "top"
  /\ i >= 2
  /\ result[i] = "applied"
  /\ result[i - 1] = "failed"
  /\ writes = 1
  /\ outExists
  /\ outFile = data
  /\ outFile # ParseDocument(handler, fileContent)

C7_TranslationsNeverLost ==
  [][\A k \in Units :
       (outExists /\ k <= i /\ result[k] = "applied" /\ outFile[KeyOf(k)] = returned[k])
         => (outExists' /\ outFile'[KeyOf(k)] = returned[k])]_vars

\* C8: one unit at a time, in extraction order: at most one request in flight, at
\* most one write in progress, never a request, a backoff wait and a write side by
\* side; the loop stands at the head of an iteration (where the codec work of the
\* next unit starts) only with none of them outstanding; the request in hand is
\* that of the first unresolved unit, and the units after it are untouched.
C8_OneUnitAtATime ==
  /\ inFlight \in {0, 1}
  /\ writing \in {0, 1}
  /\ sleeping \in {0, 1}
  /\ inFlight + writing + sleeping <= 1
  /\ pc \in {"top", "done"} => inFlight + writing + sleeping = 0
  /\ pc = "fetch" => inFlight = 1
  /\ pc = "delay" => sleeping = 1
  /\ pc \in {"write", "copy"} => writing = 1
  /\ pc \in {"fetch", "delay", "write"} =>
       /\ i < Len(translatable)
       /\ pc # "write" => protectedText = protectPlaceholders(translatable[i + 1].value).text
  /\ \A k \in Units : (k <= i) <=> (result[k] # "pending" /\ (k = i + 1 => pc # "write"))

\* C8 witness: the second unit's request is in flight after the first unit's
\* request, backoff wait and write have completed.
C8_Witness ==
  /\ pc = "fetch"
  /\ i = 1
  /\ result[1] = "applied"
  /\ writes = 1
  /\ attempt = 2

\* C9: retry bound.  A call that returned a translation received at most 3
\* retryable failures (429 or ECONNRESET/ETIMEDOUT) before the success, one request
\* per failure plus one, and returned the restored remote translation; a call that
\* surfaced a retryable failure received 4 of them; and while the call is running it
\* has received at most 3, so the success that follows k <= 3 failures is taken.
C9_RetryBound ==
  /\ outcome = "ok" =>
       /\ fails <= 3
       /\ requests = fails + 1
       /\ pc = "write" =>
            returned[i + 1] = restorePlaceholders(Translate(protectedText), map)
  /\ (outcome = "thrown" /\ warning \in {ErrorMessage("429"), ErrorMessage("reset")}) =>
       /\ fails = 4
       /\ requests = 4
  /\ outcome = "active" => /\ fails <= 3
                           /\ pc \in {"fetch", "delay"}
                           /\ pc = "fetch" => requests = fails + 1

\* C9 witness: a call returned its translation after exactly 3 retryable failures.
C9_Witness ==
  /\ outcome = "ok"
  /\ fails = 3
  /\ pc = "write"
  /\ result[i + 1] = "applied"

\* C10: the waits of a call are 1000, 2000 and 4000 ms in this order, one after
\* each of its first three retryable failures and none after a fourth, so a call
\* that succeeds after k <= 3 failures has waited the sum of the first k of them.
BackoffDelays == <<1000, 2000, 4000>>

RECURSIVE Sum(_)
Sum(s) == IF s = <<>> THEN 0 ELSE Head(s) + Sum(Tail(s))

C10_BackoffDelays ==
  /\ waits = SubSeq(BackoffDelays, 1, Min(fails, 3))
  /\ \A a \in 1..Len(waits) : waits[a] = Min(1000 * Pow2(a - 1), 10000)
  /\ outcome = "ok" => Sum(waits) = Sum(SubSeq(BackoffDelays, 1, fails))
  /\ outcome = "thrown" => Len(waits) = Min(fails, 3)
  /\ sleeping = 1 => Len(waits) = fails

\* C10 witness: a call has succeeded after three failures and waited 7000 ms.
C10_Witness ==
  /\ outcome = "ok"
  /\ waits = <<1000, 2000, 4000>>
  /\ Sum(waits) = 7000

\* C11 as claimed: the client issues at most 3 transport requests for one text.
C11_AtMostThreeRequests == requests <= 3

\* C11 amended: the client issues at most 4 transport requests for one text, the
\* first and 3 retries; a retryable failure is surfaced exactly when the 4th
\* request has failed, and the unit is then skipped: it is marked failed, nothing
\* is written for it and the loop moves on.
C11_AtMostFourRequests ==
  /\ requests <= MAX_RETRIES + 1
  /\ attempt <= MAX_RETRIES + 1
  /\ pc \in {"fetch", "delay"} => requests = attempt
  /\ (outcome = "thrown" /\ warning \in {ErrorMessage("429"), ErrorMessage("reset")}) =>
       /\ requests = MAX_RETRIES + 1
       /\ pc \in {"top", "done"}
       /\ result[i] = "failed"
       /\ returned[i] = <<>>

\* C11 witness: a unit has been skipped after its 4th request failed with a
\* rate-limit response.
C11_Witness ==
  /\ outcome = "thrown"
  /\ warning = ErrorMessage("429")
  /\ requests = 4
  /\ pc = "top"
  /\ result[i] = "failed"

\* C12: a non-retryable failure (a non-2xx status other than 429, a 2xx body
\* without translations) is surfaced by the request that received it: no wait
\* follows it, every earlier response of the call was a retryable failure followed
\* by one wait, and when it is the first response the call has made exactly one
\* request and no wait; the error reaches the handler, which marks the unit failed.
C12_NonRetryableImmediate ==
  (outcome = "thrown" /\ warning \in {ErrorMessage("http"), ErrorMessage("empty")}) =>
    /\ fails = attempt - 1
    /\ requests = attempt
    /\ Len(waits) = attempt - 1
    /\ sleeping = 0
    /\ inFlight = 0
    /\ result[i] = "failed"
    /\ attempt = 1 => (requests = 1 /\ waits = <<>> /\ fails = 0)

\* C12 witness: a call has surfaced a non-2xx status on its first response.
C12_Witness ==
  /\ outcome = "thrown"
  /\ warning = ErrorMessage("http")
  /\ attempt = 1
  /\ requests = 1
  /\ waits = <<>>

\* C13 as claimed: restoring the masked text of a unit with its own map gives the
\* unit's text back, for every text handed to the codec.
C13_PlaceholderInvariance ==
  pc \in {"fetch", "delay"} =>
    restorePlaceholders(protectedText, map) = translatable[i + 1].value

\* Position p of text t lies inside a match of one of the protected patterns.
Covered(t, p) ==
  \E k \in 1..Len(PROTECTED_PATTERNS), q \in 1..p :
    LET n == MatchLenAt(PROTECTED_PATTERNS[k], t, q) IN n > 0 /\ p < q + n

\* Text t is empty, or made up only of protected-pattern matches and whitespace.
OnlyProtected(t) == \A p \in 1..Len(t) : IsSpace(t[p]) \/ Covered(t, p)

\* C14 as claimed: shouldTranslate is false for exactly the texts that are empty,
\* whitespace-only, or made up only of protected-pattern matches and whitespace.
C14_SkipClassification ==
  \A k \in 1..Len(fileContent) :
    (~shouldTranslate(fileContent[k])) <=> OnlyProtected(fileContent[k])

\* C15 as claimed: for a text made up only of protected patterns and whitespace
\* translateText sends no request and returns the text itself: no request or wait
\* is ever in progress for such a unit, and such a unit is never resolved as
\* translated or failed.
C15_NoRequestWhenNotTranslatable ==
  /\ pc \in {"fetch", "delay"} => ~OnlyProtected(translatable[i + 1].value)
  /\ \A k \in Units :
       OnlyProtected(translatable[k].value) =>
         /\ result[k] \in {"pending", "passed"}
         /\ result[k] = "passed" => returned[k] = translatable[k].value

\* C16 as claimed: the masked text sent to the service holds no positional printf
\* marker: the whole marker has been replaced by a token.
C16_PositionalMarkersMasked ==
  pc \in {"fetch", "delay"} => IndexOf(protectedText, <<"%", "1", "$", "s">>) = 0

\* C17 as claimed: in the YAML, JSON, TOML and INI handlers a leaf is extracted
\* as a unit exactly when its value has a character that is not whitespace and it
\* sits in a container (at a key or an array index, the root is not extracted).
C17_ExtractionRule ==
  (handler \in {"yaml", "json", "toml", "ini"} /\ pc \notin {"start", "aborted"}) =>
    \A k \in 1..Len(data) :
      (\E u \in Units : KeyOf(u) = k)
        <=> (Len(Trim(fileContent[k])) > 0 /\ layout # "root")

\* C18: the shape of the document is frozen at parse time.  In every state after
\* parsing the in-memory document has the leaves it was parsed with, in the same
\* places and the same layout; every leaf that was not extracted holds the value
\* it was parsed with, and an extracted leaf holds a string: its parsed value or
\* a text translateText returned.  The extracted units themselves never change.
C18_ShapeInvariant ==
  pc \notin {"start", "aborted"} =>
    LET parsed == ParseDocument(handler, fileContent) IN
    /\ Len(data) = Len(parsed)
    /\ translatable = collectTranslatableValues(handler, layout, parsed)
    /\ \A k \in 1..Len(parsed) :
         IF \E u \in Units : KeyOf(u) = k
         THEN data[k] = parsed[k] \/ \E u \in Units : data[k] = returned[u]
         ELSE data[k] = parsed[k]
    /\ outExists => Len(outFile) = Len(parsed)

\* C18 witness: a JSON job over an array of three leaves is done; a leaf has been
\* translated and a leaf that was not extracted is still in its place.
C18_Witness ==
  /\ pc = "done"
  /\ handler = "json"
  /\ layout = "array"
  /\ Len(data) = 3
  /\ \E u \in Units : result[u] = "applied" /\ data[KeyOf(u)] # fileContent[KeyOf(u)]
  /\ \E k \in 1..Len(data) : /\ \A u \in Units : KeyOf(u) # k
                               /\ data[k] = fileContent[k]

\* C19: when parsing the input fails the handler raises before any output is
\* produced: the job is aborted with the output directory not created, no file
\* written, no write started and no request sent; a job is aborted only for a
\* parse failure, and a job whose input is malformed gets no further than that.
C19_ParseFailureProducesNothing ==
  /\ pc = "aborted" =>
       /\ malformed /\ Parsing(handler)
       /\ ~outDir
       /\ ~outExists
       /\ writes = 0 /\ writing = 0
       /\ requests = 0 /\ inFlight = 0
       /\ translatable = <<>>
  /\ malformed => pc \in {"start", "aborted"}

\* C19 witness: a TOML job has been aborted by a parse failure.
C19_Witness ==
  /\ pc = "aborted"
  /\ handler = "toml"
  /\ malformed
  /\ Len(fileContent) > 0

\* C20: when every request is answered and every write returns, a job always
\* terminates: it is aborted by the parse failure, or the handler returns with
\* the loop at the end of the unit list, and it stays there.
C20_Terminates ==
  <>[](pc = "aborted" \/ (pc = "done" /\ i = Len(translatable)))

\* C20 witness: a job over two units has returned; its last unit took four
\* requests and three waits and failed, after a unit that was translated.
C20_Witness ==
  /\ pc = "done"
  /\ Len(translatable) = 2
  /\ i = 2
  /\ result[1] = "applied"
  /\ result[2] = "failed"
  /\ requests = 4
  /\ Len(waits) = 3

\* C21: original files remain unchanged: no write of a run goes to the selected
\* input file, every write goes to OUTPUT_DIR joined with the file's path relative
\* to INPUT_DIR, and the input file holds what the handler read from it, whatever
\* INPUT_DIR and OUTPUT_DIR are configured.
C21_InputNeverWritten ==
  /\ inputPath \notin writtenPaths
  /\ writtenPaths \subseteq {join(outputDir, relative(inputDir, inputPath))}
  /\ inputFile = fileContent

\* C22: when the client fails for a unit, nothing changes: no step of the
\* attempt (the requests, the waits, the catch block) changes the in-memory
\* document or the output file or starts a write, and when the catch block has
\* run the unit's leaf holds the unit's original value.
C22_FailureChangesNothing ==
  [][/\ (pc' \in {"fetch", "delay"} \/ (pc = "fetch" /\ outcome' = "thrown")) =>
          /\ data' = data
          /\ outFile' = outFile
          /\ outExists' = outExists
          /\ writing' = writing
     /\ (pc = "fetch" /\ outcome' = "thrown") =>
          data'[KeyOf(i + 1)] = translatable[i + 1].value]_vars

\* C22 witness: a unit has just failed after all its retries, with an earlier
\* translation in the document and in the output file.
C22_Witness ==
  /\ pc = "top"
  /\ i >= 2
  /\ result[i] = "failed"
  /\ result[i - 1] = "applied"
  /\ outcome = "thrown"
  /\ requests = MAX_RETRIES + 1
  /\ outExists
  /\ outFile = data
  /\ data # ParseDocument(handler, fileContent)
  /\ data[KeyOf(i)] = translatable[i].value

\* The outcome of unit k: what translateText returned, or the original text when
\* it threw.
Outcome(k) == IF Succeeded(k) THEN returned[k] ELSE translatable[k].value

\* The loop body has finished with unit k (its write may still be in progress).
Consumed(k) == k <= i \/ (k = i + 1 /\ pc = "write")

RECURSIVE Before(_, _)
Before(p, q) ==
  IF p = <<>> \/ q = <<>> THEN FALSE
  ELSE Head(p) < Head(q) \/ (Head(p) = Head(q) /\ Before(Tail(p), Tail(q)))

\* C24: the units are emitted in the order of a depth-first visit that takes the
\* entries of an object in their stored order and the elements of an array by
\* ascending index, and the loop translates them in that order: the units
\* translateText has been called for are the first i of the list.
C24_DepthFirstOrder ==
  pc # "start" =>
    /\ \A j, k \in Units :
         j < k => Before(PathOf(fileContent, translatable[j]),
                         PathOf(fileContent, translatable[k]))
    /\ \A k \in Units : (invocations[k] # <<>>) <=> (k <= i)

\* C24 witness: a job has returned after translating, in this order, a string
\* inside the first child of the root, a container, and a string that is the
\* second child of the root.
C24_Witness ==
  /\ layout = "tree"
  /\ pc = "done"
  /\ i = Len(translatable)
  /\ \E j, k \in Units :
       /\ j < k
       /\ Len(PathOf(fileContent, translatable[j])) = 2
       /\ PathOf(fileContent, translatable[k]) = <<2>>
       /\ invocations[j] # <<>>
       /\ invocations[k] # <<>>

C26_WarningNamesText ==
  (outcome = "thrown" /\ i >= 1) =>
    /\ subject.by = "value"
    /\ subject.text = translatable[i].value
    /\ warning \in {ErrorMessage(kind) : kind \in Responses \ {"ok"}}
    /\ pc \in {"top", "done"}

\* C27: in the TXT handler every output written has as many lines as the input,
\* and every input line that is empty or holds white space only stands unchanged
\* at its index (the texts returned here hold no line break).
C27_LinesKept ==
  (handler = "txt" /\ outExists) =>
    LET inLines == SplitLines(JoinLines(fileContent))
        outLines == SplitLines(JoinLines(outFile))
    IN /\ Len(outLines) = Len(inLines)
       /\ \A k \in 1..Len(inLines) :
            Trim(inLines[k]) = <<>> => outLines[k] = inLines[k]

\* C27 witness: the TXT handler has written a file with a translated line that
\* stands after a blank one.
C27_Witness ==
  /\ handler = "txt"
  /\ outExists
  /\ writes >= 1
  /\ \E j, k \in 1..Len(fileContent) :
       /\ j < k
       /\ Trim(fileContent[j]) = <<>>
       /\ outFile[j] = fileContent[j]
       /\ outFile[k] # fileContent[k]

\* The key of a line that has a separator: what stands before it, trimmed.
KeyPart(line) == Trim(Slice(line, 1, SeparatorAt(line) - 1))

\* A line that is not a property line: a comment, a blank line, or a line
\* without separator.
NotProperty(line) ==
  \/ Trim(line) = <<>>
  \/ StartsAt(Trim(line), <<"#">>, 1)
  \/ StartsAt(Trim(line), <<"!">>, 1)
  \/ SeparatorAt(line) = 0

\* C28: in the properties handler, in every output written, every comment line,
\* every blank line and every line without separator stands unchanged at its
\* index, and every property line stands at its index with its original key.
C28_CommentsAndKeysKept ==
  (layout = "entries" /\ outExists) =>
    LET outLines == SplitLines(JoinLines(outFile))
    IN /\ Len(outLines) = Len(fileContent)
       /\ \A k \in 1..Len(fileContent) :
            IF NotProperty(fileContent[k])
            THEN outLines[k] = fileContent[k]
            ELSE /\ SeparatorAt(outLines[k]) > 0
                 /\ KeyPart(outLines[k]) = KeyPart(fileContent[k])

\* C28 witness: the properties handler has written a file in which a property
\* written with spaces and a colon or an equals sign has its value translated,
\* after a comment line and before a line without separator.
C28_Witness ==
  /\ layout = "entries"
  /\ outExists
  /\ Len(fileContent) = 3
  /\ fileContent[1] = <<"#", "a">>
  /\ fileContent[2] = <<" ", "k", " ", "=", " ", "a", " ">>
  /\ fileContent[3] = <<"k">>
  /\ outFile = <<<<"#", "a">>, <<"k", "=", "b">>, <<"k">>>>

\* An attribute name or the comment property of the XML tree.
AttributeOrComment(k) == StartsAt(k, <<"@">>, 1) \/ k = CommentProp

\* The names of the entries a path of positions goes through.
RECURSIVE KeysAlong(_, _)
KeysAlong(node, path) ==
  IF path = <<>> THEN <<>>
  ELSE <<node.children[Head(path)].key>>
       \o KeysAlong(node.children[Head(path)].node, Tail(path))

\* Whether the attributes and comments of tree b, at any depth, are those of
\* tree a, the two trees having one shape.
RECURSIVE SameAttributes(_, _)
SameAttributes(a, b) ==
  /\ Len(a.children) = Len(b.children)
  /\ \A k \in 1..Len(a.children) :
       /\ a.children[k].key = b.children[k].key
       /\ IF AttributeOrComment(a.children[k].key)
          THEN a.children[k].node = b.children[k].node
          ELSE SameAttributes(a.children[k].node, b.children[k].node)

\* C29: in the XML handler no attribute value and no comment, at any depth, is
\* extracted as a unit or sent for translation, and the attributes and comments
\* of the tree are at every moment of the job those of the parsed document.
C29_AttributesUntouched ==
  (layout = "tree" /\ handler = "xml" /\ pc # "start") =>
    /\ \A k \in Units :
         \A n \in 1..Len(PathOf(fileContent, translatable[k])) :
           ~AttributeOrComment(KeysAlong(fileContent, PathOf(fileContent, translatable[k]))[n])
    /\ SameAttributes(fileContent, data)

\* C29 witness: an XML job has returned after translating the text of an
\* element whose attribute holds the same text, in a document with a comment.
C29_Witness ==
  /\ layout = "tree"
  /\ handler = "xml"
  /\ pc = "done"
  /\ Len(translatable) >= 1
  /\ i = Len(translatable)
  /\ Len(fileContent.children) = 2
  /\ fileContent.children[1].key = CommentProp
  /\ fileContent.children[1].node = StringNode(<<"a">>)
  /\ fileContent.children[2].node =
       ObjectNode(<<<<"k">>, AttributePrefix \o <<"i", "d">>>>,
                  <<StringNode(<<"a">>), StringNode(<<"a">>)>>)
  /\ data.children[2].node =
       ObjectNode(<<<<"k">>, AttributePrefix \o <<"i", "d">>>>,
                  <<StringNode(<<"b">>), StringNode(<<"a">>)>>)

\* The opening of every token: [[PROTECTED_ .
TokenOpening == <<"[", "[", "P", "R", "O", "T", "E", "C", "T", "E", "D", "_">>

\* C30 as claimed: protectPlaceholders never scans a span it has substituted: a
\* token put in for one pattern class is never part of a match of a later class,
\* so no original recorded in the map of a request holds a token.
C30_NoTokenInOriginal ==
  \A k \in 1..Len(map) : IndexOf(map[k].original, TokenOpening) = 0

\* The token numbered j, spelled out.
Token(j) == TokenOpening \o Decimal(j) \o <<"]", "]">>

\* One pattern class applied to the text s from position p on, each match
\* replaced where it stands by the token of the next number, n being the number
\* of the first: the resulting text and the matches in order.
RECURSIVE InPlace(_, _, _, _)
InPlace(cls, s, p, n) ==
  IF p > Len(s) THEN [text |-> <<>>, originals |-> <<>>]
  ELSE LET m == MatchLenAt(cls, s, p) IN
       IF m > 0
       THEN LET rest == InPlace(cls, s, p + m, n + 1)
            IN [text |-> Token(n) \o rest.text,
                originals |-> <<Slice(s, p, p + m - 1)>> \o rest.originals]
       ELSE LET rest == InPlace(cls, s, p + 1, n)
            IN [text |-> <<s[p]>> \o rest.text, originals |-> rest.originals]

\* The classes from the k-th on applied in order, each to the text the one
\* before has left.
RECURSIVE InClassOrder(_, _, _)
InClassOrder(s, k, n) ==
  IF k > 4 THEN [text |-> s, originals |-> <<>>]
  ELSE LET one == InPlace(<<"color", "variable", "named", "percent">>[k], s, 1, n)
           rest == InClassOrder(one.text, k + 1, n + Len(one.originals))
       IN [text |-> rest.text, originals |-> one.originals \o rest.originals]

\* C31: protectPlaceholders handles the matches in class order and, within a
\* class, left to right: the j-th match handled gets the token numbered j, counted
\* from 0 in every call, and is the j-th entry of the map; the occurrence replaced
\* is the matched one; the tokens of one map are pairwise distinct.
C31_SequentialTokens ==
  outcome = "active" =>
    LET text == translatable[i + 1].value
        expected == InClassOrder(text, 1, 0)
    IN /\ Len(map) = Len(expected.originals)
       /\ \A j \in 1..Len(map) :
            /\ map[j].index = j - 1
            /\ map[j].placeholder = Token(j - 1)
            /\ map[j].original = expected.originals[j]
       /\ \A j, k \in 1..Len(map) : j # k => map[j].placeholder # map[k].placeholder
       /\ protectedText = expected.text

\* C31 witness: a request is in hand for a text whose second match in class
\* order stands left of its first, and one for a text with the same code twice.
C31_Witness ==
  /\ outcome = "active"
  /\ translatable[i + 1].value \in {<<"%", "s", "&", "a">>, <<"&", "a", "&", "a">>}
  /\ Len(map) = 2
  /\ map[1].original = <<"&", "a">>
  /\ map[2].placeholder = Token(1)
  /\ (translatable[i + 1].value = <<"%", "s", "&", "a">>) =>
       protectedText = Token(1) \o Token(0)

\* C32: for a text that holds nothing like a token, the text translateText sends
\* to the transport holds no match of any protected pattern class: no colour
\* code, no printf marker of the listed letters, no named placeholder, no
\* escaped percent sign.
C32_NothingProtectedIsSent ==
  (outcome = "active" /\ IndexOf(translatable[i + 1].value, TokenOpening) = 0) =>
    \A cls \in {"color", "variable", "named", "percent"} :
      MatchAll(cls, protectedText) = <<>>

\* C32 witness: a request is in hand for a named placeholder followed by an
\* escaped percent sign, and the text sent is two tokens.
C32_Witness ==
  /\ pc = "fetch"
  /\ inFlight = 1
  /\ translatable[i + 1].value = <<"{", "p", "}", "%", "%">>
  /\ protectedText = Token(0) \o Token(1)

\* C33: the rate-limit retries and the network-error retries of one call count on
\* the same attempt: however 429 responses and ECONNRESET/ETIMEDOUT errors are
\* mixed, the call issues at most 4 requests and waits at most 3 times, every
\* retryable failure but a fourth is followed by one wait, and no wait is longer
\* than 4000 ms.
C33_SharedAttemptCounter ==
  /\ limited <= fails
  /\ requests <= MAX_RETRIES + 1
  /\ Len(waits) <= MAX_RETRIES
  /\ Len(waits) = Min(fails, MAX_RETRIES)
  /\ pc = "fetch" => attempt = Len(waits) + 1
  /\ pc = "delay" => attempt = Len(waits)
  /\ \A k \in 1..Len(waits) : waits[k] <= 4000

\* C33 witness: a call has been given up after 4 requests and 3 waits, having met
\* two 429 responses and two network errors, the last failure a network error.
C33_Witness ==
  /\ outcome = "thrown"
  /\ requests = 4
  /\ fails = 4
  /\ limited = 2
  /\ warning = ErrorMessage("reset")
  /\ waits = <<1000, 2000, 4000>>

\* C34: in the handlers that keep a parsed tree (YAML, JSON, INI, XML, TOML), at
\* every point between two units where the output file has been written, the file
\* holds the serialization of the tree as it is in memory: each write-back is
\* followed by a write of the whole tree, and nothing else changes the tree.
TreeHandlers == {"yaml", "json", "ini", "xml", "toml"}

C34_FileIsCurrentTree ==
  (handler \in TreeHandlers /\ pc \in {"top", "done"} /\ writes >= 1) =>
    /\ outExists
    /\ outFile = Serialize(handler, data)
    /\ writing = 0

\* C34 witness: the loop stands after a second unit that failed, the first one
\* translated and written; the file holds the tree with the first translation.
C34_Witness ==
  /\ handler \in TreeHandlers
  /\ pc = "top"
  /\ i = 2
  /\ result[1] = "applied"
  /\ result[2] = "failed"
  /\ writes = 1
  /\ data # ParseDocument(handler, fileContent)
  /\ outFile = Serialize(handler, data)

\* C35: the progress bar is updated once for every unit, with the unit's 1-based
\* position, by the step that ends the unit's iteration, whether the unit was
\* translated, kept, skipped as a duplicate or failed: the value only ever grows
\* by one, between two units it equals the number of units handled, and when the
\* loop has ended it equals the number of units. The loop index moves only in
\* these steps, so the updates decide nothing about the units.
ProgressStep ==
  /\ progress' # progress =>
       /\ progress' = progress + 1
       /\ progress' = i + 1
       /\ i' = i + 1
       /\ result'[i + 1] \in {"applied", "kept", "dup", "failed"}
  /\ i' # i => progress' = i'

C35_ProgressOncePerUnit ==
  /\ []((pc \in {"top", "done"}) => progress = i)
  /\ [](pc = "done" => progress = Len(translatable))
  /\ [](progress <= Len(translatable))
  /\ [][ProgressStep]_vars

\* C35 witness: the loop has ended over three units, the second of them failed,
\* and the progress bar stands at 3.
C35_Witness ==
  /\ pc = "done"
  /\ Len(translatable) = 3
  /\ result[1] = "applied"
  /\ result[2] = "failed"
  /\ result[3] = "applied"
  /\ progress = 3

\* C36 as claimed: translateBatch returns one result for every text, in the order
\* of the texts: the translation of the text when translateText returned it, the
\* text itself when translateText threw, whatever the callback does.
C36_OneResultPerText ==
  pc = "returned" =>
    /\ Len(results) = Len(texts)
    /\ \A k \in 1..Len(texts) :
         results[k] = IF result[k] = "failed" THEN texts[k] ELSE translateText(texts[k])

\* C37: in the SNBT handler translateText is called at most once for each distinct
\* quoted string: at a later occurrence of a string whose first occurrence has
\* been handled (translated, kept as empty, or failed) the loop calls nothing and
\* sends nothing, and only moves on.
C37_SubmittedOnce ==
  handler = "snbt" =>
    /\ \A k \in Units : Len(invocations[k]) <= 1
    /\ \A j, k \in Units :
         (j < k /\ k <= i /\ translatable[j].value = translatable[k].value) =>
           /\ invocations[k] = <<>>
           /\ result[k] = "dup"
           /\ returned[k] = <<>>
    /\ (pc = "top" /\ i >= 1 /\ result[i] = "dup") =>
         /\ requests = 0
         /\ inFlight = 0
         /\ outcome = "none"

\* C37 witness: the first of two equal strings failed in its one call, and
\* the loop has passed the second without a call.
C37_Witness ==
  /\ handler = "snbt"
  /\ pc = "top"
  /\ i = 2
  /\ translatable[1].value = translatable[2].value
  /\ result[1] = "failed"
  /\ Len(invocations[1]) = 1
  /\ result[2] = "dup"
  /\ invocations[2] = <<>>
  /\ requests = 0

\* C38 as claimed: in the SNBT handler every quoted string of the output file is
\* the original string of its position or the translation of that original, one
\* translation step away from it: what the translation of an earlier string put
\* there is not replaced again when a later string is handled.
C38_OneTranslationStep ==
  (handler = "snbt" /\ outExists) =>
    /\ Len(outFile) = Len(fileContent)
    /\ \A k \in 1..Len(outFile) :
         \/ outFile[k] = fileContent[k]
         \/ outFile[k] = translateText(fileContent[k])
====
